---------------------------- MODULE Spec2Model ----------------------------
(***************************************************************************)
(* Token Relation System (src/tokenRelationSystem.js): the instruction     *)
(* dispatcher's handlers over the single SystemState held in               *)
(* context.state.                                                          *)
(*                                                                         *)
(* Representation.  A JavaScript string is a sequence of one-character     *)
(* strings, so a token, an alphabet and a relation name are sequences of   *)
(* characters.  A relation body is a sequence of lexical chunks: a         *)
(* whitespace character or one piece of JavaScript source.  A relation id  *)
(* is a record [type, value]: type tells a JavaScript number from a        *)
(* string, value is the number (or the number the decimal string spells)   *)
(* counted in milliseconds from 1678886400000, the id of the first         *)
(* built-in relation, because TLC's integers have 32 bits.                 *)
(***************************************************************************)
EXTENDS Integers, Sequences, FiniteSets, TLC

VARIABLES
    state,   \* context.state
    now,     \* the value Date.now() returns
    last,    \* the dispatch whose result the caller holds, or Idle
    pre,     \* context.state when that dispatch began
    changes, \* dispatches that changed context.state so far (bounds a run)
    localStorage,  \* window.localStorage: the key-value store and, under
                   \* the keys 'fs_' + path, the file store
    preStorage     \* localStorage when that dispatch began

vars == <<state, now, last, pre, changes, localStorage, preStorage>>

----------------------------------------------------------------------------
(* Bounds of the model *)

\* longest alphabet string handed to generate
MaxAlphabetLen == 2
\* largest ordinary maxLength handed to generate
MaxLength == 3
\* Date.now() when the page starts, in milliseconds after the built-in ids
StartClock == 10
\* clock ticks (milliseconds) that pass during a run
MaxTicks == 1
\* dispatches that change the relation sequence during a run
MaxChanges == 2

----------------------------------------------------------------------------
(* Values *)

\* null / undefined / a missing parameter
Null == [null |-> TRUE]

\* no dispatch result is held by a caller
Idle == [op |-> "idle"]

\* a relation id: a JavaScript number, or the string that spells it
NumberId(v) == [type |-> "number", value |-> v]
StringId(v) == [type |-> "string", value |-> v]

\* a numeric parameter: a number, or NaN (also what a missing value gives)
Num(n) == [kind |-> "number", n |-> n]
NaN == [kind |-> "NaN", n |-> 0]


\* the value v is the scalar; v may be a sequence, which TLC does not compare
\* with a record, so the two are compared as they are written
Is(v, scalar) == ToString(v) = ToString(scalar)

\* the value v is the number n; v is a record or a sequence, and only a
\* record with the fields of a number is compared with one
IsNumber(v, n) ==
    /\ {ToString(f) : f \in DOMAIN v} = {ToString("kind"), ToString("n")}
    /\ v = Num(n)

\* the result object r has the field f
Has(r, f) == f \in DOMAIN r

\* !context.state
NoState(st) == st = Null \/ st = Num(0)

----------------------------------------------------------------------------
(* localStorage *)

\* the fixed key of the saved snapshot
StateKey == <<"token_system_state">>

\* a path, by its segments: /Documents/tokens.json
DocumentsDir == <<"Documents">>
Paths == {DocumentsDir \o <<"tokens.json">>}

\* a path parameter that is missing or the empty string
NoPath == <<>>

\* 'fs_' + path: the key a file is kept under
FileKey(path) == <<"fs_">> \o path

\* `token-system-${Date.now()}.json`, the name export gives a file when it
\* is handed none; the clock is written as the model counts it
TimedName(clock) == "token-system-" \o ToString(clock) \o ".json"

\* the paths such a name can give during a run
TimedPaths ==
    {DocumentsDir \o <<TimedName(StartClock + t)>> : t \in 0..MaxTicks}

\* the keys a page finds when it starts, and all keys of a run
NamedKeys == {StateKey} \cup {FileKey(path) : path \in Paths}
Keys == NamedKeys \cup {FileKey(path) : path \in TimedPaths}

\* a store that holds nothing: getItem gives null for every key
EmptyStorage == [key \in Keys |-> Null]

\* localStorage.getItem(key), localStorage.setItem(key, content); the store
\* takes every write (no quota is reached)
GetItem(storage, key) == storage[key]
SetItem(storage, key, content) == [storage EXCEPT ![key] = content]

\* localStorage.removeItem(key)
RemoveItem_KeepsItem(storage, key) == storage
RemoveItem(storage, key) == [storage EXCEPT ![key] = Null]

\* app.api.fs
FileExists(storage, path) == GetItem(storage, FileKey(path)) # Null
ReadFile(storage, path) == GetItem(storage, FileKey(path))
WriteFile(storage, path, content) == SetItem(storage, FileKey(path), content)

----------------------------------------------------------------------------
(* The default snapshot *)

\* handler 100's defaultState
DefaultState ==
    [lexicon |-> [alphabet |-> <<"0", "1">>, maxLength |-> 3],
     generatedTokens |->
        << <<"0">>, <<"1">>,
           <<"0","0">>, <<"0","1">>, <<"1","0">>, <<"1","1">>,
           <<"0","0","0">>, <<"0","0","1">>, <<"0","1","0">>, <<"0","1","1">>,
           <<"1","0","0">>, <<"1","0","1">>, <<"1","1","0">>, <<"1","1","1">> >>,
     relationDefinitions |->
        << [id |-> NumberId(0), name |-> <<"E","Q","U","A","L","S">>,
            definition |-> <<"return tokenA === tokenB;">>],
           [id |-> NumberId(1),
            name |-> <<"I","S","_","P","R","E","F","I","X","_","O","F">>,
            definition |-> <<"return tokenB.startsWith(tokenA);">>],
           [id |-> NumberId(2),
            name |-> <<"I","S","_","S","U","F","F","I","X","_","O","F">>,
            definition |-> <<"return tokenB.endsWith(tokenA);">>],
           [id |-> NumberId(3), name |-> <<"C","O","N","T","A","I","N","S">>,
            definition |-> <<"return tokenB.includes(tokenA);">>] >>]

----------------------------------------------------------------------------
(* Handler 300: generate tokens *)

\* the warning threshold of handler 300
Threshold == 10000

\* isNaN(maxLength)
IsNaN(x) == x.kind = "NaN"

\* !alphabet || alphabet.length === 0
AlphabetMissing(alphabet) == Len(alphabet) = 0

\* isNaN(maxLength) || maxLength < 1
LengthRejected_AcceptsZero(maxLength) == IsNaN(maxLength) \/ maxLength.n < 0
LengthRejected(maxLength) == IsNaN(maxLength) \/ maxLength.n < 1

\* [...new Set(alphabet.split(''))].join(''): each character once, at the
\* place of its first occurrence
RECURSIVE SetOrder(_, _)
SetOrder(alphabet, i) ==
    IF i > Len(alphabet) THEN <<>>
    ELSE (IF \E j \in 1..(i - 1) : alphabet[j] = alphabet[i]
          THEN <<>> ELSE <<alphabet[i]>>)
         \o SetOrder(alphabet, i + 1)
UniqueChars_KeepAll(alphabet) == alphabet
UniqueChars_Reversed(alphabet) ==
    LET kept == SetOrder(alphabet, 1)
    IN  [k \in 1..Len(kept) |-> kept[Len(kept) + 1 - k]]
UniqueChars(alphabet) == SetOrder(alphabet, 1)

\* Math.pow(base, exponent)
RECURSIVE Pow(_, _)
Pow(base, exponent) == IF exponent = 0 THEN 1 ELSE base * Pow(base, exponent - 1)

\* for (let i = 1; i <= maxLength; i++) tokenCount += Math.pow(n, i)
RECURSIVE CountFrom(_, _, _)
CountFrom(n, maxLength, i) ==
    IF i > maxLength THEN 0 ELSE Pow(n, i) + CountFrom(n, maxLength, i + 1)
TokenCount(n, maxLength) == CountFrom(n, maxLength, 1)

\* tokenCount > 10000 && !params.force
MustWarn(tokenCount, force) == tokenCount > Threshold /\ ~force

\* function generateTokens(prefix, length): pushes prefix + c, then recurses
\* on it, for each character c of uniqueChars in turn
RECURSIVE GenerateTokens(_, _, _, _)
RECURSIVE GenerateLoop(_, _, _, _, _)
GenerateLoop(uniqueChars, maxLength, prefix, length, i) ==
    IF i > Len(uniqueChars) THEN <<>>
    ELSE LET newToken == Append(prefix, uniqueChars[i])
         IN  <<newToken>>
             \o GenerateTokens(uniqueChars, maxLength, newToken, length + 1)
             \o GenerateLoop(uniqueChars, maxLength, prefix, length, i + 1)
GenerateTokens(uniqueChars, maxLength, prefix, length) ==
    IF length > maxLength THEN <<>>
    ELSE GenerateLoop(uniqueChars, maxLength, prefix, length, 1)

\* the warning return: nothing is assigned
WarnOutcome_LexiconFirst(st, uniqueChars, maxLength, tokenCount) ==
    [state  |-> [st EXCEPT !.lexicon =
                    [alphabet |-> uniqueChars, maxLength |-> maxLength]],
     result |-> [success |-> FALSE, warning |-> TRUE,
                 message |-> "This will generate tokens, which may slow down your system.",
                 tokenCount |-> tokenCount]]
WarnOutcome(st, uniqueChars, maxLength, tokenCount) ==
    [state  |-> st,
     result |-> [success |-> FALSE, warning |-> TRUE,
                 message |-> "This will generate tokens, which may slow down your system.",
                 tokenCount |-> tokenCount]]

\* the successful return: lexicon and tokens are assigned
GenerateOutcome(st, uniqueChars, maxLength, tokens) ==
    [state  |-> [st EXCEPT !.lexicon = [alphabet |-> uniqueChars,
                                        maxLength |-> maxLength],
                           !.generatedTokens = tokens],
     result |-> [success |-> TRUE, message |-> "Generated tokens",
                 tokenCount |-> Len(tokens)]]

\* the handler: the state it leaves and the result it returns
Handler300(params, st) ==
    IF st = Null
    THEN [state |-> st,
          result |-> [success |-> FALSE, message |-> "System not initialized"]]
    ELSE IF AlphabetMissing(params.alphabet)
    THEN [state |-> st,
          result |-> [success |-> FALSE, message |-> "Alphabet cannot be empty"]]
    ELSE IF LengthRejected(params.maxLength)
    THEN [state |-> st,
          result |-> [success |-> FALSE,
                      message |-> "Max length must be a positive integer"]]
    ELSE LET maxLength   == params.maxLength.n
             uniqueChars == UniqueChars(params.alphabet)
             tokenCount  == TokenCount(Len(uniqueChars), maxLength)
         IN  IF MustWarn(tokenCount, params.force)
             THEN WarnOutcome(st, uniqueChars, maxLength, tokenCount)
             ELSE GenerateOutcome(st, uniqueChars, maxLength,
                                  GenerateTokens(uniqueChars, maxLength, <<>>, 1))

----------------------------------------------------------------------------
(* Strings: trim, toUpperCase, replace(/\s+/g, '_') *)

\* the characters \s matches and trim() strips
WhiteSpace == {" ", "\t"}

\* String.prototype.trim
RECURSIVE TrimLeft(_)
TrimLeft(s) ==
    IF s # <<>> /\ Head(s) \in WhiteSpace THEN TrimLeft(Tail(s)) ELSE s
RECURSIVE TrimRight(_)
TrimRight(s) ==
    IF s # <<>> /\ s[Len(s)] \in WhiteSpace
    THEN TrimRight(SubSeq(s, 1, Len(s) - 1)) ELSE s
Trim(s) == TrimRight(TrimLeft(s))

\* String.prototype.toUpperCase, on the letters names are typed from
LowerCase == <<"a", "b", "e", "l", "q", "s", "u">>
UpperCase == <<"A", "B", "E", "L", "Q", "S", "U">>
UpperChar(c) ==
    IF \E k \in 1..Len(LowerCase) : LowerCase[k] = c
    THEN UpperCase[CHOOSE k \in 1..Len(LowerCase) : LowerCase[k] = c]
    ELSE c
ToUpperCase(s) == [k \in 1..Len(s) |-> UpperChar(s[k])]

\* replace(/\s+/g, '_'): every maximal run of whitespace becomes one '_'
RECURSIVE ReplaceRuns(_)
ReplaceRuns(s) ==
    IF s = <<>> THEN <<>>
    ELSE IF Head(s) \in WhiteSpace
         THEN <<"_">> \o ReplaceRuns(TrimLeft(s))
         ELSE <<Head(s)>> \o ReplaceRuns(Tail(s))

\* (params.name || '').trim().toUpperCase().replace(/\s+/g, '_')
NormalizeName_KeepsCase(name) == ReplaceRuns(Trim(name))
NormalizeName(name) == ReplaceRuns(ToUpperCase(Trim(name)))

----------------------------------------------------------------------------
(* Handlers 301 and 302: the relation store *)

\* source text the JavaScript parser accepts as a function body: a body is a
\* sequence of chunks, each a whitespace character, a complete statement or
\* a fragment that is no statement
Statements ==
    {"return tokenA === tokenB;", "return tokenB.startsWith(tokenA);",
     "return tokenB.endsWith(tokenA);", "return tokenB.includes(tokenA);",
     "return tokenA.length === tokenB.length;",
     "return tokenA.missing.length;", "throw null;",
     "return context.state.generatedTokens.pop() === tokenB;",
     "return localStorage.clear() === tokenA;"}

\* new Function('tokenA', 'tokenB', definition) does not throw
Compiles(definition) ==
    \A k \in 1..Len(definition) :
        definition[k] \in WhiteSpace \cup Statements

\* a == b on ids: a number and the string that spells it are equal
LooseEq(a, b) == a.value = b.value

\* relationDefinitions.findIndex(r => r.id == id), 0 for -1
FindIndex(relations, id) ==
    IF \E k \in 1..Len(relations) : LooseEq(relations[k].id, id)
    THEN CHOOSE k \in 1..Len(relations) :
            /\ LooseEq(relations[k].id, id)
            /\ \A j \in 1..(k - 1) : ~LooseEq(relations[j].id, id)
    ELSE 0

\* relationDefinitions.some(r => r.name === name && r.id != id)
NameTakenByOther(relations, name, id) ==
    \E k \in 1..Len(relations) :
        relations[k].name = name /\ ~LooseEq(relations[k].id, id)

\* relationDefinitions.some(r => r.name === name)
NameTaken(relations, name) ==
    \E k \in 1..Len(relations) : relations[k].name = name

\* relationDefinitions[relationIndex] = { id, name, definition }
ReplaceAt_MovesToEnd(relations, relationIndex, entry) ==
    Append(SelectSeq([k \in 1..Len(relations) |->
                         IF k = relationIndex THEN Null ELSE relations[k]],
                     LAMBDA r : r # Null),
           entry)
ReplaceAt(relations, relationIndex, entry) ==
    [relations EXCEPT ![relationIndex] = entry]

\* relationDefinitions.splice(relationIndex, 1)
Splice(relations, relationIndex) ==
    SubSeq(relations, 1, relationIndex - 1)
    \o SubSeq(relations, relationIndex + 1, Len(relations))

\* a return that assigns nothing
Refuse(st, message) ==
    [state |-> st, result |-> [success |-> FALSE, message |-> message]]

\* the edit path's return when findIndex gives -1
EditMissing_Appends(st, entry) ==
    [state  |-> [st EXCEPT !.relationDefinitions = Append(@, entry)],
     result |-> [success |-> TRUE, message |-> "Relation added",
                 relation |-> entry]]
EditMissing(st, entry) == Refuse(st, "Relation not found")

\* the id the handler works with: params.id || Date.now().  An id a caller
\* passes is a time stamp or the string that spells one, so it is truthy
\* (value 0 stands for 1678886400000) and only a missing id gives the clock
IdOrNow(id, clock) == IF id = Null THEN NumberId(clock) ELSE id

\* handler 301 after the name, the body and the syntax passed
Store(params, st, entry) ==
    LET relations == st.relationDefinitions
        isEditing == params.id # Null
    IN  IF isEditing
        THEN LET relationIndex == FindIndex(relations, entry.id)
             IN  IF relationIndex = 0
                 THEN EditMissing(st, entry)
                 ELSE IF NameTakenByOther(relations, entry.name, entry.id)
                 THEN Refuse(st, "A relation with this name already exists")
                 ELSE [state  |-> [st EXCEPT !.relationDefinitions =
                                      ReplaceAt(relations, relationIndex, entry)],
                       result |-> [success |-> TRUE,
                                   message |-> "Relation updated",
                                   relation |-> entry]]
        ELSE IF NameTaken(relations, entry.name)
             THEN Refuse(st, "A relation with this name already exists")
             ELSE [state  |-> [st EXCEPT !.relationDefinitions =
                                  Append(relations, entry)],
                   result |-> [success |-> TRUE, message |-> "Relation added",
                               relation |-> entry]]

\* handler 301: add or edit a relation
Handler301(params, st, clock) ==
    IF st = Null THEN Refuse(st, "System not initialized")
    ELSE LET id         == IdOrNow(params.id, clock)
             name       == NormalizeName(params.name)
             definition == Trim(params.definition)
         IN  IF name = <<>>
             THEN Refuse(st, "Relation name cannot be empty")
             ELSE IF definition = <<>>
             THEN Refuse(st, "Relation definition cannot be empty")
             ELSE IF ~Compiles(definition)
             THEN Refuse(st, "Invalid definition")
             ELSE Store(params, st,
                        [id |-> id, name |-> name, definition |-> definition])

\* handler 302's return when findIndex gives -1
DeleteMissing_SplicesLast(st) ==
    [state  |-> [st EXCEPT !.relationDefinitions = SubSeq(@, 1, Len(@) - 1)],
     result |-> [success |-> TRUE, message |-> "Relation deleted"]]
DeleteMissing(st) == Refuse(st, "Relation not found")

\* handler 302: delete a relation
Handler302(params, st) ==
    IF st = Null THEN Refuse(st, "System not initialized")
    ELSE IF params.id = Null THEN Refuse(st, "Relation ID is required")
    ELSE LET relationIndex == FindIndex(st.relationDefinitions, params.id)
         IN  IF relationIndex = 0 THEN DeleteMissing(st)
             ELSE [state  |-> [st EXCEPT !.relationDefinitions =
                                  Splice(@, relationIndex)],
                   result |-> [success |-> TRUE, message |-> "Relation deleted"]]

----------------------------------------------------------------------------
(* Handler 303: compare two tokens *)

\* a JavaScript boolean
Boolean(b) == [kind |-> "boolean", b |-> b]

\* how a call ends: with a value, or with a thrown value (an Error object,
\* or null)
Returned(value) == [returned |-> value]
Raised(error) == [raised |-> error]
Error(name) == [error |-> name]

\* tokenB.startsWith(tokenA), tokenB.endsWith(tokenA), tokenB.includes(tokenA)
StartsWith(tokenB, tokenA) ==
    /\ Len(tokenA) <= Len(tokenB)
    /\ SubSeq(tokenB, 1, Len(tokenA)) = tokenA
EndsWith(tokenB, tokenA) ==
    /\ Len(tokenA) <= Len(tokenB)
    /\ SubSeq(tokenB, Len(tokenB) - Len(tokenA) + 1, Len(tokenB)) = tokenA
Includes_FromStartOnly(tokenB, tokenA) == StartsWith(tokenB, tokenA)
Includes(tokenB, tokenA) ==
    \E i \in 1..(Len(tokenB) - Len(tokenA) + 1) :
        SubSeq(tokenB, i, i + Len(tokenA) - 1) = tokenA

\* one statement, run with the two tokens: the value it ends with.  The
\* function new Function builds runs in the global scope, where the
\* script's context and the page's localStorage are in reach
Exec(statement, tokenA, tokenB, st) ==
    CASE statement = "return tokenA === tokenB;" ->
            Returned(Boolean(tokenA = tokenB))
      [] statement = "return tokenB.startsWith(tokenA);" ->
            Returned(Boolean(StartsWith(tokenB, tokenA)))
      [] statement = "return tokenB.endsWith(tokenA);" ->
            Returned(Boolean(EndsWith(tokenB, tokenA)))
      [] statement = "return tokenB.includes(tokenA);" ->
            Returned(Boolean(Includes(tokenB, tokenA)))
      [] statement = "return tokenA.length === tokenB.length;" ->
            Returned(Boolean(Len(tokenA) = Len(tokenB)))
      [] statement = "return tokenA.missing.length;" ->
            Raised(Error("TypeError"))
      [] statement = "throw null;" ->
            Raised(Null)
      [] statement = "return context.state.generatedTokens.pop() === tokenB;" ->
            Returned(Boolean(/\ st.generatedTokens # <<>>
                             /\ st.generatedTokens[Len(st.generatedTokens)]
                                   = tokenB))
      [] statement = "return localStorage.clear() === tokenA;" ->
            Returned(Boolean(FALSE))

\* one statement, run with the two tokens: the state and the store it leaves
Effect(statement, st, storage) ==
    CASE statement = "return context.state.generatedTokens.pop() === tokenB;" ->
            [state   |-> [st EXCEPT !.generatedTokens =
                             SubSeq(@, 1, Len(@) - 1)],
             storage |-> storage]
      [] statement = "return localStorage.clear() === tokenA;" ->
            [state |-> st, storage |-> [key \in DOMAIN storage |-> Null]]
      [] OTHER ->
            [state |-> st, storage |-> storage]

\* func(tokenA, tokenB): the first statement of the body ends the call; a
\* body with no statement returns undefined
Call(definition, tokenA, tokenB, st) ==
    LET statements == SelectSeq(definition, LAMBDA c : c \notin WhiteSpace)
    IN  IF statements = <<>> THEN Returned(Null)
        ELSE Exec(Head(statements), tokenA, tokenB, st)

\* what the call leaves behind, whether it returns or throws
Left(definition, st, storage) ==
    LET statements == SelectSeq(definition, LAMBDA c : c \notin WhiteSpace)
    IN  IF statements = <<>> THEN [state |-> st, storage |-> storage]
        ELSE Effect(Head(statements), st, storage)

\* an exception leaves the handler: executeInstruction throws to its caller
Throws(st, error) == [state |-> st, result |-> [threw |-> error]]

\* the catch block of handler 303: error.message is read from what was
\* thrown, and reading it from null throws in turn
Caught(st, error) ==
    IF error = Null THEN Throws(st, Error("TypeError"))
    ELSE Refuse(st, "Error executing relation")

\* handler 303: compare
Handler303(params, st, storage) ==
    LET Keeps(out) ==
            [state |-> out.state, storage |-> storage, result |-> out.result]
    IN  IF NoState(st) THEN Keeps(Refuse(st, "System not initialized"))
        ELSE IF params.tokenA = <<>>
        THEN Keeps(Refuse(st, "Token A is required"))
        ELSE IF params.tokenB = <<>>
        THEN Keeps(Refuse(st, "Token B is required"))
        ELSE IF params.relationId = Null
        THEN Keeps(Refuse(st, "Relation ID is required"))
        ELSE LET relationIndex ==
                     FindIndex(st.relationDefinitions, params.relationId)
             IN  IF relationIndex = 0 THEN Keeps(Refuse(st, "Relation not found"))
                 ELSE LET relation == st.relationDefinitions[relationIndex]
                      IN  IF ~Compiles(relation.definition)
                          THEN Keeps(Caught(st, Error("SyntaxError")))
                          ELSE LET end  == Call(relation.definition,
                                                params.tokenA, params.tokenB, st)
                                   left == Left(relation.definition, st, storage)
                               IN  IF "raised" \in DOMAIN end
                                   THEN [state   |-> left.state,
                                         storage |-> left.storage,
                                         result  |->
                                           Caught(left.state, end.raised).result]
                                   ELSE [state   |-> left.state,
                                         storage |-> left.storage,
                                         result  |->
                                           [success |-> TRUE,
                                            result |-> end.returned,
                                            tokenA |-> params.tokenA,
                                            tokenB |-> params.tokenB,
                                            relation |-> relation.name]]

----------------------------------------------------------------------------
(* JSON: JSON.stringify and JSON.parse on the values a snapshot is made of *)

\* JSON documents.  A string that spells the number v (an id the DOM handed
\* back) is kept by the number it spells.  Members of an object are taken in
\* the order lexicon, generatedTokens, relationDefinitions.
JNull == [json |-> "null"]
JNumber(n) == [json |-> "number", n |-> n]
JString(chars) == [json |-> "string", chars |-> chars]
JNumeral(v) == [json |-> "string", numeral |-> v]
JArray(items) == [json |-> "array", items |-> items]
JObject(members) == [json |-> "object", members |-> members]

\* contents of a key: the empty string, text that is no JSON, or the text of
\* a document written with the given indentation
EmptyText == [text |-> "empty"]
BrokenText == [text |-> "broken"]
JsonText(doc, space) == [text |-> "json", space |-> space, doc |-> doc]

\* a value that is no object: null, 0 or 1
IsScalar(v) == Is(v, Null) \/ IsNumber(v, 0) \/ IsNumber(v, 1)
ScalarToJson(v) == IF v = Null THEN JNull ELSE JNumber(v.n)

\* JSON.stringify, part by part
IdToJson_AlwaysNumber(id) == JNumber(id.value)
IdToJson(id) ==
    IF id.type = "number" THEN JNumber(id.value) ELSE JNumeral(id.value)
RelationToJson(r) ==
    JObject([id |-> IdToJson(r.id), name |-> JString(r.name),
             definition |-> JString(r.definition)])
MemberToJson(key, v) ==
    IF IsScalar(v) THEN ScalarToJson(v)
    ELSE CASE key = "lexicon" ->
                JObject([alphabet |-> JString(v.alphabet),
                         maxLength |-> JNumber(v.maxLength)])
           [] key = "generatedTokens" ->
                JArray([k \in 1..Len(v) |-> JString(v[k])])
           [] key = "relationDefinitions" ->
                JArray([k \in 1..Len(v) |-> RelationToJson(v[k])])
ToJson(value) ==
    IF IsScalar(value) THEN ScalarToJson(value)
    ELSE JObject([key \in DOMAIN value |-> MemberToJson(key, value[key])])

\* JSON.stringify(value) and JSON.stringify(value, null, 2): indentation
\* shows only where the document has members
Stringify(value, space) ==
    LET doc == ToJson(value)
    IN  JsonText(doc, IF doc.json = "object" /\ DOMAIN doc.members # {}
                      THEN space ELSE 0)

\* JSON.parse, part by part
IdFromJson_AlwaysNumber(doc) ==
    NumberId(IF doc.json = "number" THEN doc.n ELSE doc.numeral)
IdFromJson(doc) ==
    IF doc.json = "number" THEN NumberId(doc.n) ELSE StringId(doc.numeral)
RelationFromJson(doc) ==
    [id |-> IdFromJson(doc.members.id), name |-> doc.members.name.chars,
     definition |-> doc.members.definition.chars]
ScalarFromJson(doc) == IF doc.json = "null" THEN Null ELSE Num(doc.n)
MemberFromJson(key, doc) ==
    IF doc.json \in {"null", "number"} THEN ScalarFromJson(doc)
    ELSE CASE key = "lexicon" ->
                [alphabet |-> doc.members.alphabet.chars,
                 maxLength |-> doc.members.maxLength.n]
           [] key = "generatedTokens" ->
                [k \in 1..Len(doc.items) |-> doc.items[k].chars]
           [] key = "relationDefinitions" ->
                [k \in 1..Len(doc.items) |-> RelationFromJson(doc.items[k])]
FromJson(doc) ==
    IF doc.json \in {"null", "number"} THEN ScalarFromJson(doc)
    ELSE [key \in DOMAIN doc.members |-> MemberFromJson(key, doc.members[key])]

\* JSON.parse(content) does not throw; the value it gives
Parses(content) == content.text = "json"
JsonParse(content) == FromJson(content.doc)

\* if (content): neither null nor the empty string
HasText(content) == content # Null /\ content # EmptyText

----------------------------------------------------------------------------
(* Handlers 100, 101 and 304: initialize, save, import *)

\* a handler's outcome: the state and the store it leaves, and its result
Outcome(st, storage, result) ==
    [state |-> st, storage |-> storage, result |-> result]

\* context.state = JSON.parse(content), or the catch block of handler 100
Adopt(content, storage, message) ==
    IF Parses(content)
    THEN Outcome(JsonParse(content), storage,
                 [success |-> TRUE, message |-> message])
    ELSE Outcome(JsonParse(Stringify(DefaultState, 0)), storage,
                 [success |-> TRUE,
                  message |-> "Error occurred, initialized with defaults"])

\* context.state = JSON.parse(JSON.stringify(defaultState))
Defaults(storage) ==
    Outcome(JsonParse(Stringify(DefaultState, 0)), storage,
            [success |-> TRUE,
             message |-> "New state initialized with defaults"])

\* handler 100: initialize
Handler100_RestoresWhenFileEmpty(params, st, storage) ==
    LET content == IF params.path # NoPath
                   THEN ReadFile(storage, params.path) ELSE Null
        savedData == GetItem(storage, StateKey)
    IN  IF HasText(content)
        THEN Adopt(content, storage, "State loaded from file")
        ELSE IF params.restore /\ HasText(savedData)
        THEN Adopt(savedData, storage, "State restored from localStorage")
        ELSE Defaults(storage)
Handler100(params, st, storage) ==
    IF params.path # NoPath
    THEN LET content == ReadFile(storage, params.path)
         IN  IF HasText(content)
             THEN Adopt(content, storage, "State loaded from file")
             ELSE Defaults(storage)
    ELSE IF params.restore
    THEN LET savedData == GetItem(storage, StateKey)
         IN  IF HasText(savedData)
             THEN Adopt(savedData, storage, "State restored from localStorage")
             ELSE Defaults(storage)
    ELSE Defaults(storage)

\* the two writes of handler 101
SaveWrites_PrettyOverOld(params, st, storage) ==
    LET space == IF GetItem(storage, StateKey) = Null THEN 0 ELSE 2
        saved == SetItem(storage, StateKey, Stringify(st, space))
    IN  IF params.path # NoPath
        THEN WriteFile(saved, params.path, Stringify(st, 2))
        ELSE saved
SaveWrites_SkipsStoreWithPath(params, st, storage) ==
    IF params.path # NoPath
    THEN WriteFile(storage, params.path, Stringify(st, 2))
    ELSE SetItem(storage, StateKey, Stringify(st, 0))
SaveWrites(params, st, storage) ==
    LET saved == SetItem(storage, StateKey, Stringify(st, 0))
    IN  IF params.path # NoPath
        THEN WriteFile(saved, params.path, Stringify(st, 2))
        ELSE saved

\* handler 101: save
Handler101(params, st, storage) ==
    IF NoState(st)
    THEN Outcome(st, storage, [success |-> FALSE, message |-> "No state to save"])
    ELSE Outcome(st, SaveWrites(params, st, storage),
                 [success |-> TRUE,
                  message |-> IF params.path # NoPath THEN "State saved to path"
                              ELSE "State saved to localStorage"])

\* importedState[key] is truthy (a member of null throws before this)
Truthy(importedState, key) ==
    /\ ~IsScalar(importedState)
    /\ key \in DOMAIN importedState
    /\ ~Is(importedState[key], Null)
    /\ ~IsNumber(importedState[key], 0)

\* !lexicon || !generatedTokens || !relationDefinitions
LacksPart_LexiconOnly(importedState) == ~Truthy(importedState, "lexicon")
LacksPart(importedState) ==
    \/ ~Truthy(importedState, "lexicon")
    \/ ~Truthy(importedState, "generatedTokens")
    \/ ~Truthy(importedState, "relationDefinitions")

\* context.state = importedState, then the snapshot is written
ImportState_KeepsSnapshot(importedState, storage) ==
    Outcome(importedState, storage,
            [success |-> TRUE, message |-> "State imported successfully"])
ImportState(importedState, storage) ==
    Outcome(importedState,
            SetItem(storage, StateKey, Stringify(importedState, 0)),
            [success |-> TRUE, message |-> "State imported successfully"])

\* handler 304: import
Handler304(params, st, storage) ==
    LET Fail(message) ==
            Outcome(st, storage, [success |-> FALSE, message |-> message])
    IN  IF params.path = NoPath THEN Fail("No file path provided")
        ELSE IF ~FileExists(storage, params.path) THEN Fail("File does not exist")
        ELSE LET content == ReadFile(storage, params.path)
             IN  IF ~HasText(content) THEN Fail("Failed to read file")
                 ELSE IF ~Parses(content) THEN Fail("Import error")
                 ELSE LET importedState == JsonParse(content)
                      IN  IF importedState = Null THEN Fail("Import error")
                          ELSE IF LacksPart(importedState)
                          THEN Fail("Invalid token system file format")
                          ELSE ImportState(importedState, storage)

\* params.fileName when it is missing or the empty string
NoName == ""

\* params.fileName || `token-system-${Date.now()}.json`
FileNameOrTimed(fileName, clock) ==
    IF fileName # NoName THEN fileName ELSE TimedName(clock)

\* the refusal of handler 305 when the file is there and force is not set
AlreadyExists_Overwrites(st, storage, filePath) ==
    Outcome(st, WriteFile(storage, filePath, Stringify(st, 2)),
            [success |-> FALSE, message |-> "File already exists",
             requireConfirmation |-> TRUE, filePath |-> filePath])
AlreadyExists(st, storage, filePath) ==
    Outcome(st, storage,
            [success |-> FALSE, message |-> "File already exists",
             requireConfirmation |-> TRUE, filePath |-> filePath])

\* app.api.fs.writeFile(filePath, JSON.stringify(context.state, null, 2))
ExportWrite(st, storage, filePath, fileName) ==
    Outcome(st, WriteFile(storage, filePath, Stringify(st, 2)),
            [success |-> TRUE,
             message |-> "Exported to /Documents/" \o fileName])

\* handler 305: export
Handler305(params, st, storage, clock) ==
    IF NoState(st)
    THEN Outcome(st, storage,
                 [success |-> FALSE, message |-> "No state to export"])
    ELSE LET fileName == FileNameOrTimed(params.fileName, clock)
             filePath == DocumentsDir \o <<fileName>>
         IN  IF FileExists(storage, filePath) /\ ~params.force
             THEN AlreadyExists(st, storage, filePath)
             ELSE ExportWrite(st, storage, filePath, fileName)

----------------------------------------------------------------------------
(* context.executeInstruction and the helper handlers 400, 401, 402 *)

\* the opcodes register() was called with
Registered == {100, 101, 200, 300, 301, 302, 303, 304, 305, 400, 401, 402}

\* executeInstruction when instructionHandlers[opcode] is undefined
UnknownOpcode_CallsAnyway(opcode, st, storage) ==
    Outcome(st, storage, [threw |-> Error("TypeError")])
UnknownOpcode(opcode, st, storage) ==
    Outcome(st, storage, [success |-> FALSE, message |-> "Unknown opcode"])

\* handler 400: show a notification
Handler400(params) == [success |-> TRUE]

\* handler 401: what its promise resolves to once confirm() answered
Handler401(params, confirmed) == [confirmed |-> confirmed]

\* handler 402: what its promise resolves to once prompt() answered; value is
\* null when the dialog was cancelled
Handler402(params, value) ==
    [value |-> value, cancelled |-> Is(value, Null)]

----------------------------------------------------------------------------
(* Inputs of generate *)

\* the characters alphabets are typed from
LexChars == <<"0", "1">>

\* every string over LexChars of length at most n
RECURSIVE StringsUpTo(_, _)
StringsUpTo(chars, n) ==
    IF n = 0 THEN {<<>>}
    ELSE LET shorter == StringsUpTo(chars, n - 1)
         IN  shorter \cup {Append(s, chars[i]) : s \in shorter, i \in 1..Len(chars)}

AlphabetInputs == StringsUpTo(LexChars, MaxAlphabetLen)

\* the least maxLength at which a two-character alphabet passes the threshold
BigLength ==
    CHOOSE L \in 1..20 : /\ TokenCount(Len(LexChars), L) > Threshold
                         /\ TokenCount(Len(LexChars), L - 1) <= Threshold

MaxLengthInputs == {NaN} \cup {Num(n) : n \in -1..MaxLength}

\* ordinary requests, and the request for every string over LexChars up to
\* BigLength, each with and without force
GenerateInputs ==
    [alphabet : AlphabetInputs, maxLength : MaxLengthInputs, force : BOOLEAN]
    \cup [alphabet : {LexChars}, maxLength : {Num(BigLength)}, force : BOOLEAN]

----------------------------------------------------------------------------
(* Inputs of upsert and delete *)

\* names as a caller types them: blank ones, case and whitespace variants of
\* one another and of a built-in name
NameInputs ==
    { <<>>, <<" ">>, <<"a">>, <<" ", "A", "\t">>, <<"a", " ", "\t", "b">>,
      <<"A", "_", "B">>, <<"e", "q", "u", "a", "l", "s">> }

\* bodies as a caller types them: blank ones, a statement with whitespace
\* around it, a fragment that does not parse
DefinitionInputs ==
    { <<>>, <<" ">>, <<" ", "return tokenA.length === tokenB.length;", " ">>,
      <<"return (">> }

\* an id no definition holds
UnknownId == NumberId(StartClock - 1)

\* ids as a caller passes them: none, the id of a definition as the number
\* it is stored as or as the string the DOM holds, or an id nobody has
IdInputs(st) ==
    {Null, UnknownId}
    \cup {NumberId(st.relationDefinitions[k].id.value) :
             k \in 1..Len(st.relationDefinitions)}
    \cup {StringId(st.relationDefinitions[k].id.value) :
             k \in 1..Len(st.relationDefinitions)}

----------------------------------------------------------------------------
(* The dispatcher *)

\* the page after startup with nothing stored: handler 100 gave the defaults
Init ==
    /\ state = DefaultState
    /\ now = StartClock
    /\ last = Idle
    /\ pre = Null
    /\ changes = 0
    /\ localStorage = EmptyStorage
    /\ preStorage = Null

\* context.executeInstruction(300, params)
Generate ==
    /\ last = Idle
    /\ \E params \in GenerateInputs :
          \E out \in {Handler300(params, state)} :
              /\ state' = out.state
              /\ last' = [op |-> "generate", params |-> params, result |-> out.result]
    /\ pre' = state
    /\ preStorage' = localStorage
    /\ UNCHANGED <<now, changes, localStorage>>

\* the caller has read the result; the next event may dispatch
ReturnToCaller ==
    /\ last # Idle
    /\ last' = Idle
    /\ pre' = Null
    /\ preStorage' = Null
    /\ UNCHANGED <<state, now, changes, localStorage>>

\* context.executeInstruction(301, params)
Upsert(maxChanges) ==
    /\ last = Idle
    /\ changes < maxChanges
    /\ \E id \in IdInputs(state), name \in NameInputs,
          definition \in DefinitionInputs :
          LET params == [id |-> id, name |-> name, definition |-> definition]
          IN  \E out \in {Handler301(params, state, now)} :
                 /\ state' = out.state
                 /\ last' = [op |-> "upsert", params |-> params,
                             result |-> out.result]
                 /\ changes' = IF out.state = state THEN changes ELSE changes + 1
    /\ pre' = state
    /\ preStorage' = localStorage
    /\ UNCHANGED <<now, localStorage>>

\* context.executeInstruction(302, params)
Delete(maxChanges) ==
    /\ last = Idle
    /\ changes < maxChanges
    /\ \E id \in IdInputs(state) :
          LET params == [id |-> id]
          IN  \E out \in {Handler302(params, state)} :
                 /\ state' = out.state
                 /\ last' = [op |-> "delete", params |-> params,
                             result |-> out.result]
                 /\ changes' = IF out.state = state THEN changes ELSE changes + 1
    /\ pre' = state
    /\ preStorage' = localStorage
    /\ UNCHANGED <<now, localStorage>>

\* a millisecond passes between two events
Tick ==
    /\ last = Idle
    /\ now < StartClock + MaxTicks
    /\ now' = now + 1
    /\ UNCHANGED <<state, last, pre, changes, localStorage, preStorage>>

NextLexicon == Generate \/ ReturnToCaller

SpecLexicon == Init /\ [][NextLexicon]_vars

NextRelations ==
    Upsert(MaxChanges) \/ Delete(MaxChanges) \/ Tick \/ ReturnToCaller

SpecRelations == Init /\ [][NextRelations]_vars

\* the same dispatches, one more change deep: two adds and an edit
NextRelationsDeep ==
    Upsert(MaxChanges + 1) \/ Delete(MaxChanges + 1) \/ Tick \/ ReturnToCaller

SpecRelationsDeep == Init /\ [][NextRelationsDeep]_vars

----------------------------------------------------------------------------
(* Compare: inputs, dispatches and specification *)

\* tokens as the comparator's selects offer them, and a token left out
TokenInputs ==
    {<<>>} \cup {DefaultState.generatedTokens[k] :
                    k \in 1..Len(DefaultState.generatedTokens)}

\* bodies an author types that compile: one that returns, one that reads a
\* property of undefined, one that throws null, one that takes a token off
\* the state's list, one that empties the store
AuthorBodies ==
    { <<"return tokenA.length === tokenB.length;">>,
      <<"return tokenA.missing.length;">>, <<"throw null;">>,
      <<"return context.state.generatedTokens.pop() === tokenB;">>,
      <<"return localStorage.clear() === tokenA;">> }

\* a snapshot edited by hand outside the page: the defaults and one more
\* relation whose body does not parse
HandWritten ==
    [DefaultState EXCEPT !.relationDefinitions =
        Append(@, [id |-> NumberId(4), name |-> <<"B">>,
                   definition |-> <<"return (">>])]

\* the page after startup with nothing under the state key; the file may be
\* there
InitCompare ==
    /\ state = DefaultState
    /\ now = StartClock
    /\ last = Idle
    /\ pre = Null
    /\ changes = 0
    /\ \E content \in {Null, Stringify(HandWritten, 2)} :
          localStorage =
              [key \in Keys |-> IF key \in NamedKeys \ {StateKey}
                                THEN content ELSE Null]
    /\ preStorage = Null

\* context.executeInstruction(301, {name, definition}): the add workflow
Author ==
    /\ last = Idle
    /\ changes < MaxChanges
    /\ \E definition \in AuthorBodies :
          LET params == [id |-> Null, name |-> <<"q">>, definition |-> definition]
          IN  \E out \in {Handler301(params, state, now)} :
                 /\ state' = out.state
                 /\ last' = [op |-> "upsert", params |-> params,
                             result |-> out.result]
                 /\ changes' = IF out.state = state THEN changes ELSE changes + 1
    /\ pre' = state
    /\ preStorage' = localStorage
    /\ UNCHANGED <<now, localStorage>>

\* context.executeInstruction(303, params)
Compare ==
    /\ last = Idle
    /\ \E tokenA \in TokenInputs, tokenB \in TokenInputs,
          relationId \in IdInputs(state) :
          LET params == [tokenA |-> tokenA, tokenB |-> tokenB,
                         relationId |-> relationId]
          IN  \E out \in {Handler303(params, state, localStorage)} :
                 /\ \/ out.state = state /\ out.storage = localStorage
                    \/ changes < MaxChanges
                 /\ state' = out.state
                 /\ localStorage' = out.storage
                 /\ changes' = IF /\ out.state = state
                                  /\ out.storage = localStorage
                               THEN changes ELSE changes + 1
                 /\ last' = [op |-> "compare", params |-> params,
                             result |-> out.result]
    /\ pre' = state
    /\ preStorage' = localStorage
    /\ UNCHANGED now

\* context.executeInstruction(304, params); a caller may import at once
\* what an export wrote, and then the result records the export before
Import ==
    /\ last = Idle \/ last.op = "export"
    /\ \E path \in {NoPath} \cup Paths \cup TimedPaths :
          LET params == [path |-> path]
          IN  \E out \in {Handler304(params, state, localStorage)} :
                 /\ state' = out.state
                 /\ localStorage' = out.storage
                 /\ last' = [op |-> "import", params |-> params,
                             result |-> out.result, before |-> last]
    /\ pre' = state
    /\ preStorage' = localStorage
    /\ UNCHANGED <<now, changes>>

NextCompare == Author \/ Import \/ Compare \/ ReturnToCaller

SpecCompare == InitCompare /\ [][NextCompare]_vars

----------------------------------------------------------------------------
(* Sessions: generate, upsert, delete, compare, export and import *)

\* file names as a caller passes them: none, or a name
FileNameInputs == {NoName, "tokens.json"}

\* context.executeInstruction(300, params) with an ordinary request, or
\* with the request past the threshold, unforced
Regenerate ==
    /\ last = Idle
    /\ changes < MaxChanges
    /\ \E params \in [alphabet : AlphabetInputs, maxLength : MaxLengthInputs,
                       force : BOOLEAN]
                      \cup [alphabet : {LexChars}, maxLength : {Num(BigLength)},
                            force : {FALSE}] :
          \E out \in {Handler300(params, state)} :
              /\ state' = out.state
              /\ last' = [op |-> "generate", params |-> params,
                          result |-> out.result]
              /\ changes' = IF out.state = state THEN changes ELSE changes + 1
    /\ pre' = state
    /\ preStorage' = localStorage
    /\ UNCHANGED <<now, localStorage>>

\* context.executeInstruction(301, {id, name, definition}): the edit
\* workflow, which takes the id from the button's data-id, a string
Rewrite ==
    /\ last = Idle
    /\ changes < MaxChanges
    /\ \E k \in DOMAIN state.relationDefinitions,
          definition \in AuthorBodies :
          LET params == [id |-> StringId(state.relationDefinitions[k].id.value),
                         name |-> <<"q">>, definition |-> definition]
          IN  \E out \in {Handler301(params, state, now)} :
                 /\ state' = out.state
                 /\ last' = [op |-> "upsert", params |-> params,
                             result |-> out.result]
                 /\ changes' = IF out.state = state THEN changes ELSE changes + 1
    /\ pre' = state
    /\ preStorage' = localStorage
    /\ UNCHANGED <<now, localStorage>>

\* the tokens the comparator's selects offer: the first and the last stored
\* token stand for all of them, and a select may be left empty
StoredTokens(st) ==
    {<<>>} \cup {st.generatedTokens[k] :
                    k \in {1, Len(st.generatedTokens)} \cap
                          DOMAIN st.generatedTokens}

\* context.executeInstruction(303, params) on stored tokens
CompareStored ==
    /\ last = Idle
    /\ \E tokenA \in StoredTokens(state), tokenB \in StoredTokens(state),
          relationId \in IdInputs(state) :
          LET params == [tokenA |-> tokenA, tokenB |-> tokenB,
                         relationId |-> relationId]
          IN  \E out \in {Handler303(params, state, localStorage)} :
                 /\ \/ out.state = state /\ out.storage = localStorage
                    \/ changes < MaxChanges
                 /\ state' = out.state
                 /\ localStorage' = out.storage
                 /\ changes' = IF /\ out.state = state
                                  /\ out.storage = localStorage
                               THEN changes ELSE changes + 1
                 /\ last' = [op |-> "compare", params |-> params,
                             result |-> out.result]
    /\ pre' = state
    /\ preStorage' = localStorage
    /\ UNCHANGED now

\* context.executeInstruction(305, params); a run writes no file from a
\* token list past the warning threshold
Export ==
    /\ last = Idle
    /\ changes < MaxChanges
    /\ Len(state.generatedTokens) <= Threshold
    /\ \E fileName \in FileNameInputs, force \in BOOLEAN :
          LET params == [fileName |-> fileName, force |-> force]
          IN  \E out \in {Handler305(params, state, localStorage, now)} :
                 /\ state' = out.state
                 /\ localStorage' = out.storage
                 /\ last' = [op |-> "export", params |-> params,
                             result |-> out.result]
                 /\ changes' = IF out.storage = localStorage THEN changes
                                ELSE changes + 1
    /\ pre' = state
    /\ preStorage' = localStorage
    /\ UNCHANGED now

NextFiles ==
    \/ Regenerate \/ Author \/ Rewrite \/ Delete(MaxChanges)
    \/ Export \/ Import \/ ReturnToCaller

SpecFiles == InitCompare /\ [][NextFiles]_vars

NextTokens ==
    \/ Regenerate \/ Author \/ Rewrite \/ Delete(MaxChanges)
    \/ CompareStored \/ ReturnToCaller

SpecTokens == Init /\ [][NextTokens]_vars

----------------------------------------------------------------------------
(* The stores: contents, dispatches and specification *)

\* snapshots that lack a part, or hold a number where a part should be
NoTokens == [lexicon |-> DefaultState.lexicon,
             relationDefinitions |-> DefaultState.relationDefinitions]
NullLexicon == [DefaultState EXCEPT !.lexicon = Null]
ZeroRelations == [DefaultState EXCEPT !.relationDefinitions = Num(0)]
AllOnes == [lexicon |-> Num(1), generatedTokens |-> Num(1),
            relationDefinitions |-> Num(1)]

\* what a key may hold when the page starts: nothing, the empty string, text
\* that is no JSON, JSON that is no object, objects that are no snapshot,
\* and snapshots
Contents ==
    {Null, EmptyText, BrokenText, JsonText(JNull, 0), JsonText(JNumber(1), 0),
     Stringify(<<>>, 0), Stringify(NoTokens, 2), Stringify(NullLexicon, 0),
     Stringify(ZeroRelations, 2), Stringify(AllOnes, 0),
     Stringify(DefaultState, 0), Stringify(HandWritten, 2)}

\* the page before DOMContentLoaded: context.state is null
InitStore ==
    /\ state = Null
    /\ now = StartClock
    /\ last = Idle
    /\ pre = Null
    /\ changes = 0
    /\ \E named \in [NamedKeys -> Contents] :
          localStorage =
              [key \in Keys |-> IF key \in NamedKeys THEN named[key] ELSE Null]
    /\ preStorage = Null

\* context.executeInstruction(100, params); a caller may initialize right
\* after a reset, and then the result records the reset before
Initialize ==
    /\ last = Idle \/ last.op = "resetState"
    /\ \E path \in {NoPath} \cup Paths, restore \in BOOLEAN :
          LET params == [path |-> path, restore |-> restore]
          IN  \E out \in {Handler100(params, state, localStorage)} :
                 /\ state' = out.state
                 /\ localStorage' = out.storage
                 /\ last' = [op |-> "initialize", params |-> params,
                             result |-> out.result, before |-> last]
    /\ pre' = state
    /\ preStorage' = localStorage
    /\ UNCHANGED <<now, changes>>

\* context.executeInstruction(101, params); a caller may save again at once,
\* and then the result records the save before
Save ==
    /\ last = Idle \/ last.op = "save"
    /\ \E path \in {NoPath} \cup Paths :
          LET params == [path |-> path]
          IN  \E out \in {Handler101(params, state, localStorage)} :
                 /\ state' = out.state
                 /\ localStorage' = out.storage
                 /\ last' = [op |-> "save", params |-> params,
                             result |-> out.result,
                             before |-> IF last = Idle THEN Idle
                                        ELSE [op |-> "save",
                                              params |-> last.params,
                                              result |-> last.result]]
    /\ pre' = state
    /\ preStorage' = localStorage
    /\ UNCHANGED <<now, changes>>

\* opcodes a caller may pass that nothing is registered for
OpcodeInputs == {0, 102, 306, 999}

\* context.executeInstruction(opcode, params) with such an opcode
Unknown ==
    /\ last = Idle
    /\ \E opcode \in OpcodeInputs \ Registered :
          \E out \in {UnknownOpcode(opcode, state, localStorage)} :
              /\ state' = out.state
              /\ localStorage' = out.storage
              /\ last' = [op |-> "unknown", params |-> [opcode |-> opcode],
                          result |-> out.result]
    /\ pre' = state
    /\ preStorage' = localStorage
    /\ UNCHANGED <<now, changes>>

\* context.executeInstruction(400, params)
Notify ==
    /\ last = Idle
    /\ last' = [op |-> "notify", params |-> [title |-> "Success"],
                result |-> Handler400([title |-> "Success"])]
    /\ pre' = state
    /\ preStorage' = localStorage
    /\ UNCHANGED <<state, now, changes, localStorage>>

\* context.executeInstruction(401, params), once the user answered
Confirm ==
    /\ last = Idle
    /\ \E confirmed \in BOOLEAN :
          last' = [op |-> "confirm", params |-> [title |-> "Warning"],
                   result |-> Handler401([title |-> "Warning"], confirmed)]
    /\ pre' = state
    /\ preStorage' = localStorage
    /\ UNCHANGED <<state, now, changes, localStorage>>

\* context.executeInstruction(402, params), once the user answered
Prompt ==
    /\ last = Idle
    /\ \E value \in {Null, Boolean(TRUE)} :
          last' = [op |-> "prompt", params |-> [title |-> "Input"],
                   result |-> Handler402([title |-> "Input"], value)]
    /\ pre' = state
    /\ preStorage' = localStorage
    /\ UNCHANGED <<state, now, changes, localStorage>>

NextStore ==
    \/ Initialize \/ Save \/ Import \/ Unknown
    \/ Notify \/ Confirm \/ Prompt \/ ReturnToCaller

SpecStore == InitStore /\ [][NextStore]_vars

----------------------------------------------------------------------------
(* The page's workflows: a click, the dialogs it opens, the dispatches it
   makes.  confirm() and prompt() block the page until the user answers and
   each then() callback runs before the next event is taken, so a workflow
   runs from its click to its end with no other event in between. *)

\* handler 200: the page is drawn again from context.state
Handler200(params, st) ==
    IF NoState(st)
    THEN [success |-> FALSE, message |-> "System not initialized"]
    ELSE [success |-> TRUE, message |-> "UI created"]

\* one dispatch of a workflow: the opcode, the parameters, the result
Step(opcode, params, result) ==
    [opcode |-> opcode, params |-> params, result |-> result]

\* the dispatches workflows share: a notification, the refresh, a
\* confirmation the user answered, a prompt the user answered
Notified(title) == Step(400, [title |-> title], Handler400([title |-> title]))
Refresh(st) ==
    Step(200, [refresh |-> TRUE], Handler200([refresh |-> TRUE], st))
Ask(title, confirmed) ==
    Step(401, [title |-> title], Handler401([title |-> title], confirmed))
Enter(title, value) ==
    Step(402, [title |-> title], Handler402([title |-> title], value))

\* if (response.confirmed)
Confirmed_Always(response) == TRUE
Confirmed(response) == response.confirmed

\* if (result.cancelled || !result.value): the prompt was cancelled or
\* left empty
Blank(result) ==
    result.cancelled \/ Is(result.value, <<>>) \/ Is(result.value, "")

\* what the steps of a workflow after its dispatch are: the notification,
\* and after a success the refresh
Closing(result, st) ==
    IF result.success THEN <<Notified("Success"), Refresh(st)>>
    ELSE <<Notified("Error")>>

\* a workflow may start: no event is being handled, the run's budget of
\* changes is not spent, the token list is not past the warning threshold
Ready ==
    /\ last = Idle
    /\ changes < MaxChanges
    /\ Len(state.generatedTokens) <= Threshold

\* what a workflow leaves: the state, the store, and the steps it made; a
\* reset is not counted as a change of the run, it takes changes back
Finish(name, st, storage, steps) ==
    /\ state' = st
    /\ localStorage' = storage
    /\ last' = [op |-> name, steps |-> steps]
    /\ pre' = state
    /\ preStorage' = localStorage
    /\ changes' = IF name = "resetState" \/ (st = state /\ storage = localStorage)
                   THEN changes ELSE changes + 1
    /\ UNCHANGED now

\* generateTokens(alphabet, maxLength, context) with what the two inputs
\* hold: an alphabet, and a number or nothing that parses as one; the
\* request past the threshold is made on a page nothing was changed on
ClickGenerate ==
    /\ Ready
    /\ \E alphabet \in {<<>>, <<"1">>, <<"1", "0", "1">>, LexChars},
          maxLength \in {NaN, Num(0), Num(1), Num(BigLength)},
          confirmed \in BOOLEAN :
          LET params == [alphabet |-> alphabet, maxLength |-> maxLength,
                         force |-> FALSE]
              first == Handler300(params, state)
              asked == <<Step(300, params, first.result),
                         Ask("Warning", confirmed)>>
              forced == Handler300([params EXCEPT !.force = TRUE], state)
          IN  /\ maxLength = Num(BigLength) => changes = 0
              /\ IF first.result.success
                 THEN Finish("generateTokens", first.state, localStorage,
                             <<Step(300, params, first.result)>>
                             \o Closing(first.result, first.state))
                 ELSE IF ~Has(first.result, "warning")
                 THEN Finish("generateTokens", first.state, localStorage,
                             <<Step(300, params, first.result)>>
                             \o Closing(first.result, first.state))
                 ELSE IF ~Confirmed(asked[2].result)
                 THEN Finish("generateTokens", state, localStorage, asked)
                 ELSE Finish("generateTokens", forced.state, localStorage,
                             asked
                             \o <<Step(300, [params EXCEPT !.force = TRUE],
                                        forced.result)>>
                             \o IF forced.result.success
                                THEN Closing(forced.result, forced.state)
                                ELSE <<>>)

\* what the user types into a name prompt and into a definition prompt
NameAnswers == {<<>>, <<"q">>, <<"e", "q", "u", "a", "l", "s">>}
BodyAnswers ==
    {<<>>, <<"return (">>, <<"return tokenA.length === tokenB.length;">>}

\* addRelation(context)
ClickAdd ==
    /\ Ready
    /\ \E cancelName \in BOOLEAN, typedName \in NameAnswers,
          cancelBody \in BOOLEAN, typedBody \in BodyAnswers :
          LET nameResult ==
                  Enter("Enter relation name:",
                        IF cancelName THEN Null ELSE typedName)
              defResult ==
                  Enter("Enter relation definition (JavaScript):",
                        IF cancelBody THEN Null ELSE typedBody)
              params == [id |-> Null, name |-> typedName,
                         definition |-> typedBody]
              out == Handler301(params, state, now)
          IN  IF Blank(nameResult.result)
              THEN Finish("addRelation", state, localStorage, <<nameResult>>)
              ELSE IF Blank(defResult.result)
              THEN Finish("addRelation", state, localStorage,
                          <<nameResult, defResult>>)
              ELSE Finish("addRelation", out.state, localStorage,
                          <<nameResult, defResult,
                            Step(301, params, out.result)>>
                          \o Closing(out.result, out.state))

\* editRelation(btn.dataset.id, context): the id is the string the button
\* of a drawn relation holds
ClickEdit ==
    /\ Ready
    /\ \E k \in DOMAIN state.relationDefinitions,
          cancelName \in BOOLEAN, typedName \in NameAnswers,
          cancelBody \in BOOLEAN, typedBody \in BodyAnswers :
          LET id == StringId(state.relationDefinitions[k].id.value)
              nameResult ==
                  Enter("Edit relation name:",
                        IF cancelName THEN Null ELSE typedName)
              defResult ==
                  Enter("Edit relation definition (JavaScript):",
                        IF cancelBody THEN Null ELSE typedBody)
              params == [id |-> id, name |-> typedName,
                         definition |-> typedBody]
              out == Handler301(params, state, now)
          IN  IF nameResult.result.cancelled
              THEN Finish("editRelation", state, localStorage, <<nameResult>>)
              ELSE IF defResult.result.cancelled
              THEN Finish("editRelation", state, localStorage,
                          <<nameResult, defResult>>)
              ELSE Finish("editRelation", out.state, localStorage,
                          <<nameResult, defResult,
                            Step(301, params, out.result)>>
                          \o Closing(out.result, out.state))

\* deleteRelation(btn.dataset.id, context)
ClickDelete ==
    /\ Ready
    /\ \E k \in DOMAIN state.relationDefinitions, confirmed \in BOOLEAN :
          LET params == [id |-> StringId(state.relationDefinitions[k].id.value)]
              asked == Ask("Confirm Deletion", confirmed)
              out == Handler302(params, state)
          IN  IF ~Confirmed(asked.result)
              THEN Finish("deleteRelation", state, localStorage, <<asked>>)
              ELSE Finish("deleteRelation", out.state, localStorage,
                          <<asked, Step(302, params, out.result)>>
                          \o Closing(out.result, out.state))

\* resetState(context)
ClickReset ==
    /\ last = Idle
    /\ \E confirmed \in BOOLEAN :
          LET asked == Ask("Confirm Reset", confirmed)
              params == [path |-> NoPath, restore |-> FALSE]
              out == Handler100(params, state,
                                RemoveItem(localStorage, StateKey))
          IN  IF ~Confirmed(asked.result)
              THEN Finish("resetState", state, localStorage, <<asked>>)
              ELSE Finish("resetState", out.state, out.storage,
                          <<asked, Step(100, params, out.result),
                            Refresh(out.state), Notified("Success")>>)

\* saveState(context)
ClickSave ==
    /\ last = Idle
    /\ LET params == [path |-> NoPath]
       IN  \E out \in {Handler101(params, state, localStorage)} :
              /\ state' = out.state
              /\ localStorage' = out.storage
              /\ last' = [op |-> "saveState",
                          steps |-> <<Step(101, params, out.result),
                                      Notified(IF out.result.success
                                               THEN "Success" ELSE "Error")>>]
    /\ pre' = state
    /\ preStorage' = localStorage
    /\ UNCHANGED <<now, changes>>

\* the page is loaded: the DOMContentLoaded listener.  A reload may come
\* right after a save, and then the steps record the save before
Startup ==
    /\ last = Idle \/ last.op = "saveState"
    /\ LET params == [path |-> NoPath, restore |-> TRUE]
       IN  \E out \in {Handler100(params, state, localStorage)} :
              /\ state' = out.state
              /\ localStorage' = out.storage
              /\ last' = [op |-> "startup",
                          steps |-> <<Step(100, params, out.result),
                                      Step(200, <<>>,
                                           Handler200(<<>>, out.state)),
                                      Notified("System Ready")>>,
                          before |-> last]
    /\ pre' = state
    /\ preStorage' = localStorage
    /\ UNCHANGED <<now, changes>>

\* exportState(context)
ClickExport ==
    /\ Ready
    /\ \E cancelled \in BOOLEAN,
          typed \in {"", "tokens.json", TimedName(now)},
          confirmed \in BOOLEAN :
          LET named == Enter("Enter filename for export:",
                             IF cancelled THEN Null ELSE typed)
              params == [fileName |-> typed, force |-> FALSE]
              first == Handler305(params, state, localStorage, now)
              asked == <<named, Step(305, params, first.result),
                         Ask("File Exists", confirmed)>>
              forced == Handler305([params EXCEPT !.force = TRUE], state,
                                   localStorage, now)
          IN  IF Blank(named.result)
              THEN Finish("exportState", state, localStorage, <<named>>)
              ELSE IF first.result.success
              THEN Finish("exportState", first.state, first.storage,
                          <<named, Step(305, params, first.result),
                            Notified("Success")>>)
              ELSE IF ~Has(first.result, "requireConfirmation")
              THEN Finish("exportState", first.state, first.storage,
                          <<named, Step(305, params, first.result),
                            Notified("Error")>>)
              ELSE IF ~Confirmed(asked[3].result)
              THEN Finish("exportState", first.state, first.storage, asked)
              ELSE Finish("exportState", forced.state, forced.storage,
                          asked
                          \o <<Step(305, [params EXCEPT !.force = TRUE],
                                     forced.result),
                               Notified(IF forced.result.success
                                        THEN "Success" ELSE "Error")>>)

\* app.api.fs.listFiles('/Documents'), the .json files of it: the files
\* there, in an order that is the store's to choose
ListFiles(storage) ==
    LET files == {path \in Paths \cup TimedPaths : FileExists(storage, path)}
    IN  {listing \in [1..Cardinality(files) -> files] :
            \A i, j \in DOMAIN listing : listing[i] = listing[j] => i = j}

\* parseInt(value) of what the user typed into the selection prompt
ParseInt(typed) ==
    IF \E n \in 0..9 : ToString(n) = typed
    THEN Num(CHOOSE n \in 0..9 : ToString(n) = typed)
    ELSE NaN

\* importState(context)
ClickImport ==
    /\ Ready
    /\ \E jsonFiles \in ListFiles(localStorage) :
       \E cancelled \in BOOLEAN,
          typed \in {"", "x"}
                    \cup {ToString(n) : n \in 0..Len(jsonFiles) + 1},
          confirmed \in BOOLEAN :
          LET picked == Enter("Select a file to import:",
                              IF cancelled THEN Null ELSE typed)
              index == ParseInt(typed)
              asked == <<picked, Ask("Confirm Import", confirmed)>>
              params == [path |-> jsonFiles[index.n]]
              out == Handler304(params, state, localStorage)
          IN  IF Len(jsonFiles) = 0
              THEN Finish("importState", state, localStorage,
                          <<Notified("Error")>>)
              ELSE IF Blank(picked.result)
              THEN Finish("importState", state, localStorage, <<picked>>)
              ELSE IF IsNaN(index) \/ index.n - 1 < 0
                      \/ index.n - 1 >= Len(jsonFiles)
              THEN Finish("importState", state, localStorage,
                          <<picked, Notified("Error")>>)
              ELSE IF ~Confirmed(asked[2].result)
              THEN Finish("importState", state, localStorage, asked)
              ELSE Finish("importState", out.state, out.storage,
                          asked \o <<Step(304, params, out.result)>>
                          \o Closing(out.result, out.state))

NextWorkflows ==
    \/ ClickGenerate \/ ClickAdd \/ ClickEdit \/ ClickDelete
    \/ ClickReset \/ ClickExport \/ ClickImport
    \/ Export \/ Initialize \/ ReturnToCaller

SpecWorkflows == InitCompare /\ [][NextWorkflows]_vars

\* a session that changes the state, saves, and loads the page anew
NextRestore ==
    \/ Regenerate \/ Author \/ Rewrite \/ Delete(MaxChanges)
    \/ ClickSave \/ Startup \/ ReturnToCaller

SpecRestore == Init /\ [][NextRestore]_vars

----------------------------------------------------------------------------
(* What the claims speak of, stated without the handlers' operators *)

Generated == last # Idle /\ last.op = "generate"
Upserted  == last # Idle /\ last.op = "upsert"
Deleted   == last # Idle /\ last.op = "delete"
Compared  == last # Idle /\ last.op = "compare"

Initialized == last # Idle /\ last.op = "initialize"
Saved     == last # Idle /\ last.op = "save"
Imported  == last # Idle /\ last.op = "import"
Exported  == last # Idle /\ last.op = "export"

\* the three parts of a snapshot
Parts == {"lexicon", "generatedTokens", "relationDefinitions"}

\* a value that is an object or an array: not null and not a number
IsObject(v) == ~Is(v, Null) /\ ~IsNumber(v, 0) /\ ~IsNumber(v, 1)

\* a valid SystemState: an object with a lexicon, a token sequence and a
\* relation sequence
ValidState(st) ==
    /\ IsObject(st)
    /\ Parts \subseteq DOMAIN st
    /\ \A part \in Parts : IsObject(st[part])

\* the content reads back as the value
Holds(content, value) ==
    /\ content # Null
    /\ content.text = "json"
    /\ FromJson(content.doc) = value

\* the content is JSON of an object that has the part
HasPart(content, part) ==
    /\ content.doc.json = "object"
    /\ part \in DOMAIN content.doc.members

\* a is the start of b, the end of b, a run of characters of b
IsPrefix(a, b) == \E n \in 0..Len(b) : a = [k \in 1..n |-> b[k]]
IsSuffix(a, b) == \E n \in 0..Len(b) : a = [k \in 1..n |-> b[Len(b) - n + k]]
IsSubstring(a, b) ==
    \E i \in 0..Len(b) : \E n \in 0..(Len(b) - i) : a = [k \in 1..n |-> b[i + k]]

\* what the k-th built-in relation says of the pair (a, b)
BuiltIn(k, a, b) ==
    CASE k = 1 -> a = b
      [] k = 2 -> IsPrefix(a, b)
      [] k = 3 -> IsSuffix(a, b)
      [] k = 4 -> IsSubstring(a, b)

\* the compare asked for the k-th built-in relation on the pair (a, b)
Asked(k, a, b) ==
    /\ Compared
    /\ last.params.relationId # Null
    /\ last.params.relationId.value = DefaultState.relationDefinitions[k].id.value
    /\ last.params.tokenA = a
    /\ last.params.tokenB = b

\* the compare answered with the boolean v
Answered(v) ==
    /\ Has(last.result, "success") /\ last.result.success
    /\ last.result.result = Boolean(v)

\* the body does not parse, or throws when it is called
BodyRaises(definition) ==
    \E k \in 1..Len(definition) :
        definition[k] \in {"return (", "return tokenA.missing.length;", "throw null;"}

\* the definition of st that a compare by id picks
Picked(st, id) ==
    st.relationDefinitions[CHOOSE k \in 1..Len(st.relationDefinitions) :
                              st.relationDefinitions[k].id.value = id.value]

\* the characters of a string, as a set
CharSet(s) == {s[k] : k \in 1..Len(s)}

\* sum of n^i for i = 1..L
RECURSIVE SumOfPowers(_, _)
SumOfPowers(n, L) == IF L < 1 THEN 0 ELSE SumOfPowers(n, L - 1) + Pow(n, L)

\* the number of tokens a request asks for
Requested(params) ==
    SumOfPowers(Cardinality(CharSet(params.alphabet)), params.maxLength.n)

\* a request generate rejects outright
BadRequest(params) ==
    \/ params.alphabet = <<>>
    \/ params.maxLength = NaN
    \/ params.maxLength.n < 1

\* position of a character in the alphabet
Rank(alphabet, c) == CHOOSE k \in 1..Len(alphabet) : alphabet[k] = c

\* s comes before t, both of one length, reading alphabet as the order
LexBefore(alphabet, s, t) ==
    \E k \in 1..Len(s) :
        /\ \A j \in 1..(k - 1) : s[j] = t[j]
        /\ Rank(alphabet, s[k]) < Rank(alphabet, t[k])

\* shorter tokens first, and tokens of one length in lexicographic order
LengthThenLex(alphabet, tokens) ==
    \A k \in 1..(Len(tokens) - 1) :
        \/ Len(tokens[k]) < Len(tokens[k + 1])
        \/ /\ Len(tokens[k]) = Len(tokens[k + 1])
           /\ LexBefore(alphabet, tokens[k], tokens[k + 1])

\* a name as the spec normalizes it: trimmed, upper-cased, each whitespace
\* run replaced by one underscore
RECURSIVE Flatten(_)
Flatten(pieces) ==
    IF pieces = <<>> THEN <<>> ELSE Head(pieces) \o Flatten(Tail(pieces))
Inked(s) == {k \in 1..Len(s) : s[k] \notin WhiteSpace}
NormalName(raw) ==
    IF Inked(raw) = {} THEN <<>>
    ELSE LET first == CHOOSE k \in Inked(raw) : \A j \in Inked(raw) : k <= j
             final == CHOOSE k \in Inked(raw) : \A j \in Inked(raw) : j <= k
             core  == SubSeq(raw, first, final)
         IN  Flatten([k \in 1..Len(core) |->
                        IF core[k] \notin WhiteSpace THEN <<UpperChar(core[k])>>
                        ELSE IF core[k - 1] \notin WhiteSpace THEN <<"_">>
                        ELSE <<>>])

\* a body with its outer whitespace removed
TrimmedBody(raw) ==
    IF Inked(raw) = {} THEN <<>>
    ELSE SubSeq(raw, CHOOSE k \in Inked(raw) : \A j \in Inked(raw) : k <= j,
                     CHOOSE k \in Inked(raw) : \A j \in Inked(raw) : j <= k)

\* a body that is neither blank nor malformed
GoodBody(raw) ==
    /\ Inked(raw) # {}
    /\ \A k \in Inked(raw) : raw[k] \in Statements

\* some definition of st holds the id
Held(st, id) ==
    \E k \in 1..Len(st.relationDefinitions) :
        st.relationDefinitions[k].id.value = id.value

\* the request names a relation that another definition already carries
NameClash(st, params) ==
    \E k \in 1..Len(st.relationDefinitions) :
        /\ st.relationDefinitions[k].name = NormalName(params.name)
        /\ \/ params.id = Null
           \/ st.relationDefinitions[k].id.value # params.id.value

DuplicateNameError == "A relation with this name already exists"

----------------------------------------------------------------------------
(* Claims *)

\* C1: a successful generate stores the tokens by length ascending and,
\* within a length, in lexicographic alphabet order; generate("01", 3)
\* stores the sequence of the default snapshot.
C1_LengthThenLexOrder ==
    (Generated /\ last.result.success) =>
        /\ LengthThenLex(state.lexicon.alphabet, state.generatedTokens)
        /\ (last.params.alphabet = <<"0", "1">> /\ last.params.maxLength = Num(3))
              => state.generatedTokens = DefaultState.generatedTokens

\* C2: a successful generate stores exactly sum_{i=1..L} |A|^i tokens, each
\* of length 1..L, each over the characters of A, none twice, and returns
\* that number as tokenCount.
C2_TokenSet ==
    (Generated /\ last.result.success) =>
        LET A      == CharSet(last.params.alphabet)
            L      == last.params.maxLength.n
            tokens == state.generatedTokens
        IN  /\ Len(tokens) = Requested(last.params)
            /\ last.result.tokenCount = Requested(last.params)
            /\ \A k \in 1..Len(tokens) :
                  /\ Len(tokens[k]) \in 1..L
                  /\ \A j \in 1..Len(tokens[k]) : tokens[k][j] \in A
            /\ Cardinality({tokens[k] : k \in 1..Len(tokens)}) = Len(tokens)

C2_Witness ==
    /\ Generated /\ last.result.success
    /\ Len(last.params.alphabet) > Cardinality(CharSet(last.params.alphabet))
    /\ last.params.maxLength.n >= 2
    /\ Len(state.generatedTokens) > 1

\* C3: a generate over the threshold without force returns success false,
\* warning true and the computed count and changes nothing; the same
\* generate with force replaces lexicon and tokens and succeeds.
C3_WarnThenForce ==
    (Generated /\ ~BadRequest(last.params) /\ Requested(last.params) > Threshold) =>
        IF last.params.force
        THEN /\ last.result.success
             /\ state.lexicon.maxLength = last.params.maxLength.n
             /\ CharSet(state.lexicon.alphabet) = CharSet(last.params.alphabet)
             /\ Len(state.generatedTokens) = Requested(last.params)
             /\ state.relationDefinitions = pre.relationDefinitions
        ELSE /\ ~last.result.success
             /\ Has(last.result, "warning") /\ last.result.warning
             /\ last.result.tokenCount = Requested(last.params)
             /\ state = pre

C3_Witness ==
    /\ Generated /\ last.params.force /\ last.result.success
    /\ Requested(last.params) > Threshold
    /\ pre.lexicon # state.lexicon
    /\ pre.generatedTokens # state.generatedTokens

\* C4: generate fails, with no warning, on an empty alphabet and on a
\* maxLength that is zero, negative or missing, and changes nothing.
C4_BadRequestRefused ==
    (Generated /\ BadRequest(last.params)) =>
        /\ ~last.result.success
        /\ ~Has(last.result, "warning")
        /\ state = pre

C4_Witness ==
    /\ Generated /\ ~last.result.success
    /\ last.params.alphabet # <<>>
    /\ last.params.maxLength = Num(0)
    /\ last.params.force
    /\ pre # DefaultState

\* C5: no two relation definitions have the same name, in any state.
C5_UniqueNames ==
    state # Null =>
    \A j, k \in 1..Len(state.relationDefinitions) :
        j # k => state.relationDefinitions[j].name # state.relationDefinitions[k].name

\* C6: an upsert (add, or edit with another id) whose name normalizes to the
\* name of an existing relation fails and adds or changes no relation; the
\* error is the duplicate-name error whenever the request is otherwise one
\* the store accepts (a body that is not blank and parses, and on the edit
\* path an id some definition holds).
C6_DuplicateNameRefused ==
    (Upserted /\ NameClash(pre, last.params)) =>
        /\ ~last.result.success
        /\ state = pre
        /\ (/\ GoodBody(last.params.definition)
            /\ (last.params.id = Null \/ Held(pre, last.params.id)))
              => last.result.message = DuplicateNameError

C6_Witness ==
    /\ Upserted /\ NameClash(pre, last.params)
    /\ last.params.name # NormalName(last.params.name)
    /\ \E k \in 1..Len(last.params.name) : last.params.name[k] \in WhiteSpace
    /\ \E k \in 1..Len(last.params.name) :
          UpperChar(last.params.name[k]) # last.params.name[k]
    /\ last.params.id # Null
    /\ last.result.message = DuplicateNameError

\* C7: no two relation definitions share an id, also after two adds within
\* one clock tick.
C7_UniqueIds ==
    state # Null =>
    \A j, k \in 1..Len(state.relationDefinitions) :
        j # k => state.relationDefinitions[j].id.value
                    # state.relationDefinitions[k].id.value

\* C8: a successful edit leaves the stored id of the edited definition as it
\* was, in value and in type, however the caller spelled the id.
C8_EditKeepsId ==
    (Upserted /\ last.params.id # Null /\ last.result.success) =>
        \A k \in 1..Len(pre.relationDefinitions) :
            state.relationDefinitions[k].id = pre.relationDefinitions[k].id

\* C9: a successful edit replaces one definition in place (same length, same
\* position, every other definition unchanged); a successful add appends
\* one definition and leaves the others and their order unchanged.
C9_InPlaceOrAppend ==
    (Upserted /\ last.result.success) =>
        LET old   == pre.relationDefinitions
            new   == state.relationDefinitions
            name  == NormalName(last.params.name)
            body  == TrimmedBody(last.params.definition)
        IN  IF last.params.id # Null
            THEN /\ Len(new) = Len(old)
                 /\ \E k \in 1..Len(old) :
                       /\ old[k].id.value = last.params.id.value
                       /\ new[k].id.value = last.params.id.value
                       /\ new[k].name = name
                       /\ new[k].definition = body
                       /\ \A j \in 1..Len(old) : j # k => new[j] = old[j]
            ELSE /\ Len(new) = Len(old) + 1
                 /\ SubSeq(new, 1, Len(old)) = old
                 /\ new[Len(new)].name = name
                 /\ new[Len(new)].definition = body

C9_Witness ==
    /\ Upserted /\ last.result.success /\ last.params.id # Null
    /\ Len(pre.relationDefinitions) > Len(DefaultState.relationDefinitions)
    /\ \E k \in 1..(Len(pre.relationDefinitions) - 1) :
          /\ pre.relationDefinitions[k].id.value = last.params.id.value
          /\ pre.relationDefinitions[k] # state.relationDefinitions[k]

\* C10: an upsert with an empty name, an empty body, a malformed body, an
\* unknown id on the edit path or a duplicate name fails, and every failing
\* upsert leaves the relation sequence unchanged; an edit with an unknown id
\* appends nothing and, its name and body being acceptable, reports
\* not-found.
C10_FailureChangesNothing ==
    Upserted =>
        LET unknown == last.params.id # Null /\ ~Held(pre, last.params.id)
        IN  /\ ~last.result.success => state = pre
            /\ (\/ NormalName(last.params.name) = <<>>
                \/ ~GoodBody(last.params.definition)
                \/ unknown
                \/ NameClash(pre, last.params)) => ~last.result.success
            /\ (/\ unknown
                /\ NormalName(last.params.name) # <<>>
                /\ GoodBody(last.params.definition))
                  => last.result.message = "Relation not found"

C10_Witness ==
    /\ Upserted /\ ~last.result.success
    /\ last.params.id # Null /\ ~Held(pre, last.params.id)
    /\ last.result.message = "Relation not found"
    /\ pre # DefaultState /\ state = pre

\* C11: a delete with an id no definition holds fails with not-found, a
\* delete with no id fails with the missing-id error, and either leaves the
\* relation sequence as it was, in length and in order.
C11_DeleteMissingRefused ==
    Deleted =>
        /\ last.params.id = Null =>
              /\ ~last.result.success
              /\ last.result.message = "Relation ID is required"
              /\ state.relationDefinitions = pre.relationDefinitions
        /\ (last.params.id # Null /\ ~Held(pre, last.params.id)) =>
              /\ ~last.result.success
              /\ last.result.message = "Relation not found"
              /\ state.relationDefinitions = pre.relationDefinitions

C11_Witness ==
    /\ Deleted /\ last.params.id # Null /\ ~Held(pre, last.params.id)
    /\ last.result.message = "Relation not found"
    /\ Len(pre.relationDefinitions) > Len(DefaultState.relationDefinitions)
    /\ state = pre

\* C12: a successful delete removes exactly the one definition with the
\* given id: the sequence is one shorter, no definition with that id is
\* left, the others keep their order, lexicon and tokens are unchanged.
C12_DeleteRemovesOne ==
    (Deleted /\ last.result.success) =>
        LET old == pre.relationDefinitions
            new == state.relationDefinitions
        IN  /\ Len(new) = Len(old) - 1
            /\ ~Held(state, last.params.id)
            /\ \E k \in 1..Len(old) :
                  /\ old[k].id.value = last.params.id.value
                  /\ \A j \in 1..Len(new) :
                        new[j] = IF j < k THEN old[j] ELSE old[j + 1]
            /\ state.lexicon = pre.lexicon
            /\ state.generatedTokens = pre.generatedTokens

\* C13: on the default snapshot, compare returns true for EQUALS on
\* ("101","101") and false on ("101","110"), true for IS_PREFIX_OF on
\* ("10","101") and true for CONTAINS on ("0","101"); for every token pair
\* (a,b) EQUALS yields a = b, IS_PREFIX_OF yields a is a prefix of b,
\* IS_SUFFIX_OF a is a suffix of b, CONTAINS a is a substring of b.
C13_BuiltInRelations ==
    /\ Asked(1, <<"1","0","1">>, <<"1","0","1">>) => Answered(TRUE)
    /\ Asked(1, <<"1","0","1">>, <<"1","1","0">>) => Answered(FALSE)
    /\ Asked(2, <<"1","0">>, <<"1","0","1">>) => Answered(TRUE)
    /\ Asked(4, <<"0">>, <<"1","0","1">>) => Answered(TRUE)
    /\ \A k \in 1..4 :
          (/\ Compared
           /\ Asked(k, last.params.tokenA, last.params.tokenB)
           /\ last.params.tokenA # <<>> /\ last.params.tokenB # <<>>)
             => Answered(BuiltIn(k, last.params.tokenA, last.params.tokenB))

C13_Witness ==
    /\ Asked(4, <<"0">>, <<"1","0","1">>)
    /\ last.params.relationId.type = "string"
    /\ last.result.result = Boolean(TRUE)
    /\ last.result.relation = <<"C","O","N","T","A","I","N","S">>

\* C14: a compare whose stored body raises when compiled or called returns
\* success false with a message and throws nothing to the caller, and leaves
\* the state and the stores as they were, so that later dispatches see
\* nothing of it; a compare that lacks tokenA, tokenB or relationId, or names
\* an id no definition holds, returns success false as well.
C14_CompareFailsSoftly ==
    Compared =>
        LET params  == last.params
            missing == \/ params.tokenA = <<>> \/ params.tokenB = <<>>
                       \/ params.relationId = Null
            unknown == params.relationId # Null /\ ~Held(pre, params.relationId)
            raises  == /\ ~missing /\ ~unknown
                       /\ BodyRaises(Picked(pre, params.relationId).definition)
        IN  /\ (missing \/ unknown \/ raises) =>
                  /\ Has(last.result, "success") /\ ~last.result.success
                  /\ Has(last.result, "message")
            /\ raises => (state = pre /\ localStorage = preStorage)

\* C15: a dispatch with an opcode nothing is registered for returns success
\* false and a message, throws nothing, and leaves the state, the key-value
\* store and the file store as they were.
C15_UnknownOpcodeRefused ==
    (last # Idle /\ last.op = "unknown") =>
        /\ last.params.opcode \notin Registered
        /\ Has(last.result, "success") /\ ~last.result.success
        /\ Has(last.result, "message")
        /\ ~Has(last.result, "threw")
        /\ state = pre
        /\ localStorage = preStorage

C15_Witness ==
    /\ last # Idle /\ last.op = "unknown"
    /\ ValidState(pre)
    /\ \E key \in Keys : preStorage[key] # Null

\* C16: for every registered opcode the result of the dispatch (or what its
\* awaitable resolves to) carries a boolean success field, the confirmation
\* (401) and prompt (402) opcodes included.
C16_UniformResult ==
    (last # Idle /\ last.op # "unknown") =>
        /\ Has(last.result, "success")
        /\ last.result.success \in BOOLEAN

\* C17: whatever the file store and the key-value store hold (nothing,
\* text that does not parse, JSON of any shape), initialize returns success
\* true and ends with a valid SystemState.
C17_InitializeAlwaysValid ==
    Initialized =>
        /\ last.result.success
        /\ ValidState(state)

C19_SaveIdempotent ==
    (Saved /\ last.before # Idle) =>
        /\ localStorage[StateKey] = preStorage[StateKey]
        /\ \A path \in Paths :
              (last.params.path = path /\ last.before.params.path = path)
                  => localStorage[FileKey(path)] = preStorage[FileKey(path)]

C19_Witness ==
    /\ Saved /\ last.before # Idle
    /\ last.result.success /\ last.before.result.success
    /\ last.params.path \in Paths /\ last.before.params.path = last.params.path
    /\ ValidState(state)

----------------------------------------------------------------------------
(* C21 *)

\* C21: a successful import leaves as the state exactly what the file's text
\* parses to, leaves the file as it was, and leaves under the state key a
\* snapshot that reads back as the state now live
C21_ImportReplacesAndSaves ==
    (Imported /\ last.result.success) =>
        /\ Holds(preStorage[FileKey(last.params.path)], state)
        /\ Holds(localStorage[StateKey], state)
        /\ localStorage[FileKey(last.params.path)]
               = preStorage[FileKey(last.params.path)]

\* a successful import over a state and a snapshot that both differ from
\* the file's content
C21_Witness ==
    /\ Imported /\ last.result.success
    /\ pre # Null /\ pre # state
    /\ preStorage[StateKey] # Null
    /\ preStorage[StateKey] # localStorage[StateKey]
    /\ state = HandWritten

----------------------------------------------------------------------------
(* C22 *)

\* the path an export with these parameters writes
WrittenPath(params, clock) ==
    <<"Documents",
      IF params.fileName = "" THEN TimedName(clock) ELSE params.fileName>>

----------------------------------------------------------------------------
(* C23 *)

\* the files of the store that were there before the last event and whose
\* content that event changed
Overwritten ==
    {key \in Keys \ {StateKey} :
        preStorage[key] # Null /\ localStorage[key] # preStorage[key]}

\* C23: an export dispatch without force to a path where a file is returns
\* success false, requireConfirmation true and the path, and writes
\* nothing; an export dispatch that overwrote a file had force set; an
\* export workflow dispatches with force only after a confirmation the
\* user answered with yes, and overwrote a file only if it did so
C23_ExportAsksBeforeOverwriting ==
    /\ Exported =>
          LET filePath == WrittenPath(last.params, now)
          IN  /\ (preStorage[FileKey(filePath)] # Null /\ ~last.params.force) =>
                    /\ ~last.result.success
                    /\ Has(last.result, "requireConfirmation")
                    /\ last.result.requireConfirmation
                    /\ last.result.filePath = filePath
                    /\ localStorage = preStorage
              /\ Overwritten # {} => last.params.force
    /\ (last # Idle /\ last.op = "exportState") =>
          LET Forced(j) == /\ last.steps[j].opcode = 305
                           /\ last.steps[j].params.force
              Agreed(i) == /\ last.steps[i].opcode = 401
                           /\ last.steps[i].result.confirmed
          IN  /\ \A j \in DOMAIN last.steps :
                    Forced(j) => \E i \in 1..(j - 1) : Agreed(i)
              /\ Overwritten # {} => \E j \in DOMAIN last.steps : Forced(j)

\* an export workflow whose first dispatch was refused because the file
\* was there, and which overwrote the file after the user said yes
C23_Witness ==
    /\ last # Idle /\ last.op = "exportState"
    /\ Len(last.steps) >= 4
    /\ last.steps[2].opcode = 305
    /\ ~last.steps[2].params.force
    /\ ~last.steps[2].result.success
    /\ last.steps[2].result.requireConfirmation
    /\ last.steps[3].result.confirmed
    /\ last.steps[4].result.success
    /\ Overwritten # {}


----------------------------------------------------------------------------
(* C24 *)

\* the workflows of more than one step
Workflows ==
    {"generateTokens", "addRelation", "editRelation", "deleteRelation",
     "resetState", "exportState", "importState"}

\* the step is a prompt the user cancelled, a confirmation the user
\* declined, a dispatch that failed (a warning and a request to confirm
\* are questions to the user, not failures)
StepCancelled(step) == step.opcode = 402 /\ step.result.cancelled
StepDeclined(step) == step.opcode = 401 /\ ~step.result.confirmed
StepFailed(step) ==
    /\ step.opcode \in {100, 200, 300, 301, 302, 304, 305}
    /\ ~step.result.success
    /\ ~Has(step.result, "warning")
    /\ ~Has(step.result, "requireConfirmation")

----------------------------------------------------------------------------
(* C25 *)

\* the last event was a reset the user confirmed
ResetDone ==
    /\ last # Idle /\ last.op = "resetState"
    /\ last.steps[1].result.confirmed

\* the last event was an initialize with restore and no path that came
\* right after a reset the user confirmed
RestoredAfterReset ==
    /\ Initialized
    /\ last.before # Idle
    /\ last.before.steps[1].result.confirmed
    /\ last.params.path = NoPath
    /\ last.params.restore

\* C25: after a confirmed reset the state is the default snapshot and
\* nothing is stored under the state key, whatever state and snapshot
\* there were; and an initialize with restore and no path that follows the
\* reset directly gives the default snapshot again
C25_ResetGivesDefaults ==
    /\ ResetDone =>
          /\ state = DefaultState
          /\ localStorage[StateKey] = Null
    /\ RestoredAfterReset =>
          /\ state = DefaultState
          /\ localStorage[StateKey] = Null

\* a confirmed reset of a page whose state was not the default and which
\* had a snapshot stored
C25_Witness ==
    /\ ResetDone
    /\ pre # DefaultState
    /\ preStorage[StateKey] # Null
    /\ preStorage[StateKey] # Stringify(DefaultState, 0)


----------------------------------------------------------------------------
(* C26 *)

\* where the character first stands in the string
FirstPlace(chars, c) ==
    CHOOSE i \in 1..Len(chars) :
        chars[i] = c /\ \A j \in 1..(i - 1) : chars[j] # c

----------------------------------------------------------------------------
(* C27 *)

\* what the file named by the last initialize held, and what the state key
\* held, before the dispatch
FileBefore ==
    IF last.params.path = NoPath THEN Null
    ELSE preStorage[FileKey(last.params.path)]
SnapshotBefore == preStorage[StateKey]

\* the source the last initialize read
FromFile == last.params.path # NoPath /\ HasText(FileBefore)
FromSnapshot ==
    last.params.path = NoPath /\ last.params.restore /\ HasText(SnapshotBefore)

\* C27: initialize takes the file when a path is given and the file has
\* content that parses, whatever restore and the state key hold (loaded
\* from file); the snapshot when no path is given, restore is true and the
\* state key holds text that parses (restored); the default snapshot when
\* the text it reads does not parse (initialized after error); and the
\* default snapshot in every other case (initialized with defaults)
C27_InitializeSource ==
    Initialized =>
        CASE FromFile /\ Parses(FileBefore) ->
                /\ state = JsonParse(FileBefore)
                /\ last.result.message = "State loaded from file"
          [] FromSnapshot /\ Parses(SnapshotBefore) ->
                /\ state = JsonParse(SnapshotBefore)
                /\ last.result.message = "State restored from localStorage"
          [] (FromFile /\ ~Parses(FileBefore))
             \/ (FromSnapshot /\ ~Parses(SnapshotBefore)) ->
                /\ state = DefaultState
                /\ last.result.message
                      = "Error occurred, initialized with defaults"
          [] OTHER ->
                /\ state = DefaultState
                /\ last.result.message = "New state initialized with defaults"

\* an initialize with a path whose file is empty or missing, with restore
\* true, while the state key holds a snapshot that parses to another state
\* than the default
C27_Witness ==
    /\ Initialized
    /\ last.params.path # NoPath /\ ~HasText(FileBefore)
    /\ last.params.restore
    /\ HasText(SnapshotBefore) /\ Parses(SnapshotBefore)
    /\ SnapshotBefore.doc # Stringify(DefaultState, 0).doc
    /\ state = DefaultState


----------------------------------------------------------------------------
(* C28 *)

\* every string over the characters of the alphabet of length 1..maxLength
StringsOver(alphabet, maxLength) ==
    UNION {[1..n -> CharSet(alphabet)] : n \in 1..maxLength}

\* C28: in every state generate, upsert, delete and compare dispatches lead
\* to from the default snapshot, the stored tokens are, as a set, exactly
\* the strings over lexicon.alphabet of length 1 to lexicon.maxLength
C28_TokensMatchLexicon ==
    {state.generatedTokens[k] : k \in 1..Len(state.generatedTokens)}
        = StringsOver(state.lexicon.alphabet, state.lexicon.maxLength)

----------------------------------------------------------------------------
(* C30 *)

\* C30: a compare dispatch, whatever its outcome and whatever the stored
\* body, leaves lexicon, tokens, relation definitions, the key-value store
\* and the file store as they were
C30_CompareReadOnly ==
    Compared => (state = pre /\ localStorage = preStorage)


----------------------------------------------------------------------------
(* C31 *)

\* the last event was a save through the page that succeeded
SavedNow ==
    /\ last # Idle /\ last.op = "saveState"
    /\ last.steps[1].result.success

\* the last event was a page load: initialize with restore and no path
Restored == last # Idle /\ last.op = "startup"

\* ... that came right after a successful save
RestoredAfterSave ==
    /\ Restored
    /\ last.before # Idle
    /\ last.before.steps[1].result.success

\* C31: from states generate, upsert and delete lead to, an initialize with
\* restore and no path that follows a successful save directly gives the
\* state as it was at the save; generate, upsert and delete dispatches
\* after a save leave what the save stored under the state key, and an
\* initialize with restore and no path gives the state that is stored there,
\* without the changes made since
C31_SaveRestoreRoundTrip ==
    /\ RestoredAfterSave =>
          /\ state = pre
          /\ last.steps[1].result.message = "State restored from localStorage"
    /\ SavedNow =>
          /\ state = pre
          /\ Holds(localStorage[StateKey], state)
    /\ (Generated \/ Upserted \/ Deleted) =>
          localStorage[StateKey] = preStorage[StateKey]
    /\ (Restored /\ preStorage[StateKey] # Null) =>
          /\ Holds(preStorage[StateKey], state)
          /\ localStorage = preStorage

\* a page load that drops changes made after the save, back to a saved
\* state that holds a relation edited through the page
C31_Witness ==
    /\ Restored
    /\ preStorage[StateKey] # Null
    /\ state # pre
    /\ \E k \in DOMAIN state.relationDefinitions :
          state.relationDefinitions[k].id.type = "string"


=========================================================================
